---- MODULE Spec2Model ----
(***************************************************************************)
(* Model of the Etherscan connector (exporter/connectors):                 *)
(*   EtherscanConnector.__load_retry, _get_token_balance_on_account,      *)
(*   retrieve_tokens, retrieve_accounts, and the class-level containers   *)
(*   of Connector.                                                         *)
(*                                                                         *)
(* Python values are tagged records (t = "None" | "str" | "list" | "dict");*)
(* a str is a sequence of one-character strings, so that the substring    *)
(* tests of the response classification are computed, not assumed.         *)
(* A dict that the code iterates or updates is a sequence of [k, v]       *)
(* pairs in insertion order.  A number is [m, e], meaning m * 10^e, kept  *)
(* in canonical form, so the 10^18 scaling never needs a wide integer.    *)
(* Floating-point rounding is not modelled: numbers are exact.            *)
(***************************************************************************)
EXTENDS Integers, Sequences, FiniteSets, TLC

\* ------------------------------------------------------------------ bounds

\* poll cycles (calls of retrieve_accounts) each instance may start
MaxCycles == 2

\* the largest retries argument of a __load_retry called on its own
MaxBudget == 6

\* program constants
DefaultRetries == 5
NativeDecimals == 18
DefaultDecimals == 18

\* ------------------------------------------------------------ Python values

PyNone == [t |-> "None"]
PyStr(s) == [t |-> "str", s |-> s]
PyList(l) == [t |-> "list", l |-> l]
PyDict(d) == [t |-> "dict", d |-> d]

\* bool(v)
Truthy(v) ==
    CASE v.t = "None" -> FALSE
      [] v.t = "str" -> v.s # <<>>
      [] v.t = "list" -> v.l # <<>>
      [] v.t = "dict" -> DOMAIN v.d # {}

\* d.get(k) of a Python dict value
Get(v, k) == IF k \in DOMAIN v.d THEN v.d[k] ELSE PyNone

\* sub in s, for two str
Contains(sub, s) ==
    \E i \in 0..(Len(s) - Len(sub)) : SubSeq(s, i + 1, i + Len(sub)) = sub

S_NOTOK == <<"N", "O", "T", "O", "K">>
S_OK == <<"O", "K">>
S_OKDASH == <<"O", "K", "-">>
S_INVALID_API_KEY ==
    <<"I", "n", "v", "a", "l", "i", "d", " ", "A", "P", "I", " ", "K", "e", "y">>

\* ------------------------------------------------------------------ numbers

DigitChars == <<"0", "1", "2", "3", "4", "5", "6", "7", "8", "9">>
IsDigit(c) == \E i \in 1..10 : DigitChars[i] = c
DigitVal(c) == (CHOOSE i \in 1..10 : DigitChars[i] = c) - 1

\* the digits of an optionally signed decimal literal
Unsigned(s) == IF s # <<>> /\ s[1] = "-" THEN Tail(s) ELSE s
IsNumeric(s) == Unsigned(s) # <<>> /\ \A i \in 1..Len(Unsigned(s)) : IsDigit(Unsigned(s)[i])

RECURSIVE DigitsValue(_)
DigitsValue(ds) ==
    IF ds = <<>> THEN 0
    ELSE 10 * DigitsValue(SubSeq(ds, 1, Len(ds) - 1)) + DigitVal(ds[Len(ds)])

RECURSIVE TrailingZeros(_)
TrailingZeros(ds) ==
    IF ds = <<>> \/ ds[Len(ds)] # "0" THEN 0
    ELSE 1 + TrailingZeros(SubSeq(ds, 1, Len(ds) - 1))

\* canonical form of m * 10^e
RECURSIVE Canon(_, _)
Canon(m, e) ==
    IF m = 0 THEN [m |-> 0, e |-> 0]
    ELSE IF m % 10 = 0 THEN Canon(m \div 10, e + 1)
    ELSE [m |-> m, e |-> e]

\* int(s) and float(s) of a decimal literal, as a number
ParseNumber(s) ==
    LET ds == Unsigned(s)
        z == TrailingZeros(ds)
        mag == DigitsValue(SubSeq(ds, 1, Len(ds) - z))
    IN  Canon(IF s[1] = "-" THEN 0 - mag ELSE mag, z)

\* n / 10^decimals
Scale(n, decimals) == Canon(n.m, n.e - decimals)

Zero == [m |-> 0, e |-> 0]

\* ------------------------------------------------------- insertion-ordered dict

DictHas(d, k) == \E i \in 1..Len(d) : d[i].k = k
DictIndex(d, k) == CHOOSE i \in 1..Len(d) : d[i].k = k
DictAt(d, k) == d[DictIndex(d, k)].v
DictKeys(d) == [i \in 1..Len(d) |-> d[i].k]

\* d.update({k: v}): an existing key keeps its place
DictSet(d, k, v) ==
    IF DictHas(d, k)
    THEN [d EXCEPT ![DictIndex(d, k)] = [k |-> k, v |-> v]]
    ELSE Append(d, [k |-> k, v |-> v])

\* ------------------------------------------------------------ configuration

Instances == {"c1", "c2"}

Addresses == <<"0xA", "0xB">>

\* a token of settings['tokens']: contract, short and, optionally, decimals
USDC == [contract |-> "0xT", short |-> "USDC", decimals |-> 6]
DAI == [contract |-> "0xD", short |-> "DAI"]

\* settings['tokens']: None (the default) is the empty sequence, falsy like it
TokenConfigs == {<<>>, <<USDC>>, <<USDC, DAI>>}

\* ------------------------------------------------------------ the remote API

Zeros(n) == [i \in 1..n |-> "0"]

\* raw native balances (wei) the API may report
NativeRaws == {<<"0">>, <<"2">> \o Zeros(18)}
\* raw token balances the API may report
TokenRaws == {<<"0">>, <<"5">> \o Zeros(6)}

\* result of balancemulti: a list of {account, balance}, for all the addresses
\* or for the first only
NativePayloadsOver(raws) ==
    {PyList(<<[account |-> Addresses[1], balance |-> x],
              [account |-> Addresses[2], balance |-> y]>>) : x, y \in raws}
    \cup {PyList(<<[account |-> Addresses[1], balance |-> x]>>) : x \in raws}

NativePayloads == NativePayloadsOver(NativeRaws)

\* raw balances of either sign
SignedNativeRaws == NativeRaws \cup {<<"-", "2">> \o Zeros(18)}
SignedTokenRaws == TokenRaws \cup {<<"-", "5">>}

\* result of tokenbalance: a decimal string
TokenPayloads == {PyStr(x) : x \in TokenRaws}

S_RATE == <<"M", "a", "x", " ", "r", "a", "t", "e">>
M_OK_RATE == S_OKDASH \o <<"M", "i", "s", "s", "i", "n", "g">>
M_NOTOK_RATE == S_NOTOK \o <<"-", "Q", "u", "e", "r", "y">>

\* the JSON documents one attempt may receive for a call of the given kind
Docs(kind) ==
    LET payloads == IF kind = "token" THEN TokenPayloads ELSE NativePayloads
        empty == IF kind = "token" THEN PyStr(<<>>) ELSE PyList(<<>>)
    IN  \* success
        {PyDict([status |-> PyStr(<<"1">>), message |-> PyStr(m), result |-> p]) :
            m \in {S_OK, M_OK_RATE}, p \in payloads}
        \* application failure
        \cup {PyDict([status |-> PyStr(<<"0">>), message |-> PyStr(m), result |-> PyStr(r)]) :
            m \in {S_NOTOK, M_NOTOK_RATE}, r \in {S_INVALID_API_KEY, S_RATE}}
        \* message "OK", result empty or absent
        \cup {PyDict([status |-> PyStr(<<"1">>), message |-> PyStr(S_OK), result |-> empty]),
              PyDict([status |-> PyStr(<<"1">>), message |-> PyStr(S_OK)])}
        \* message absent
        \cup {PyDict([status |-> PyStr(<<"1">>)])}
        \cup {PyDict([status |-> PyStr(<<"1">>), result |-> p]) : p \in payloads}

TransportErrors == {"ConnectionError", "ReadTimeout"}

\* what requests.get(...).json() does on one attempt
Responses(kind) ==
    {[kind |-> e, doc |-> PyNone] : e \in TransportErrors}
    \cup {[kind |-> "json", doc |-> d] : d \in Docs(kind)}

\* an API that answers every balancemulti request with the payload native and
\* every tokenbalance request with the raw balance token, message "OK"
ScriptedApi(native, token) == [scripted |-> TRUE, native |-> native, token |-> token]

\* an API free to answer each attempt with any of Responses
FreeApi == [scripted |-> FALSE, native |-> PyList(<<>>), token |-> <<>>]

ScriptedDoc(a, kind) ==
    PyDict([status |-> PyStr(<<"1">>), message |-> PyStr(S_OK),
            result |-> IF kind = "token" THEN PyStr(a.token) ELSE a.native])

\* the answers the API a may give to one attempt of a call of the given kind
Answers(a, kind) ==
    IF a.scripted THEN {[kind |-> "json", doc |-> ScriptedDoc(a, kind)]}
    ELSE Responses(kind)

\* ---------------------------------------------------------------- the state

VARIABLES
    live,          \* the connector instances constructed in the process
    api,           \* the remote API: free to answer anything, or scripted to one answer
    settings,      \* self.settings: addresses, tokens, enable_authentication
    accounts,      \* Connector._accounts, the class-level balance table
    pc,            \* where each instance's retrieve_accounts() stands
    call,          \* the __load_retry call in progress: kind, account and token index
    retries,       \* __load_retry: the retries parameter
    count,         \* __load_retry: count
    data,          \* __load_retry: data, and the value it returned
    attempts,      \* requests.get calls made by the call in progress
    sleeps,        \* time.sleep(1) calls made by the call in progress
    onlyTransport, \* every attempt of the call in progress raised a transport failure
    reports,       \* calls of utils.authentication_error_handler, over the lifetime
    cycles,        \* calls of retrieve_accounts() started
    entryReports,  \* reports when the cycle in progress started
    trace          \* the __load_retry calls the cycle in progress has completed

vars == <<live, api, settings, accounts, pc, call, retries, count, data, attempts, sleeps,
          onlyTransport, reports, cycles, entryReports, trace>>

NoCall == [kind |-> "none", ai |-> 0, ti |-> 0]

\* the state after the construction of the instances, their tokens among configs
InitWith(instances, configs) ==
    /\ live = instances
    /\ settings \in [Instances -> {[addresses |-> Addresses, tokens |-> t,
                                     enable_authentication |-> TRUE] :
                                        t \in configs \cup {<<>>}}]
    /\ \A i \in Instances \ instances : settings[i].tokens = <<>>
    /\ accounts = <<>>
    /\ pc = [i \in Instances |-> "idle"]
    /\ call = [i \in Instances |-> NoCall]
    /\ retries = [i \in Instances |-> 0]
    /\ count = [i \in Instances |-> 0]
    /\ data = [i \in Instances |-> PyNone]
    /\ attempts = [i \in Instances |-> 0]
    /\ sleeps = [i \in Instances |-> 0]
    /\ onlyTransport = [i \in Instances |-> TRUE]
    /\ reports = [i \in Instances |-> 0]
    /\ cycles = [i \in Instances |-> 0]
    /\ entryReports = [i \in Instances |-> 0]
    /\ trace = [i \in Instances |-> <<>>]

InitOf(instances) == InitWith(instances, TokenConfigs)

Init == InitOf({"c1"}) /\ api = FreeApi

\* -------------------------------------------------------------- __load_retry

\* 'NOTOK' in data.get('message')
IsNotOk(doc) == Contains(S_NOTOK, Get(doc, "message").s)

\* data.get('result') == 'Invalid API Key'
IsInvalidApiKey(doc) ==
    LET r == Get(doc, "result") IN r.t = "str" /\ r.s = S_INVALID_API_KEY

IsSuccess_OkOnly(doc) ==
    Get(doc, "message").s = S_OK /\ Truthy(Get(doc, "result"))

\* (data.get('message') == 'OK' or 'OK-' in data.get('message')) and data.get('result')
IsSuccess(doc) ==
    LET m == Get(doc, "message").s
    IN  (m = S_OK \/ Contains(S_OKDASH, m)) /\ Truthy(Get(doc, "result"))

BudgetSpent_OffByOne(c, n) == c >= n

BudgetSpent_OneMore(c, n) == c > n + 1

\* count > retries: the budget is spent, no request is made
BudgetSpent(c, n) == c > n

AuthenticationAfter_Reset(enabled, auth) == ~auth

\* self.settings['enable_authentication'] = False, on an authentication failure
AuthenticationAfter(enabled, auth) == IF auth THEN FALSE ELSE enabled

LoadRetryPass_RetriesOnAuth(c, d, n, resp) ==
    LET c1 == c + 1
        requested == ~BudgetSpent(c1, n)
        caught == requested /\ resp.kind \in TransportErrors
        \* the try block
        d1 == IF requested /\ ~caught THEN resp.doc ELSE d
        retry1 == caught
        \* if data: if 'NOTOK' in data.get('message')
        typeError == Truthy(d1) /\ (d1.t # "dict" \/ Get(d1, "message").t # "str")
        notok == Truthy(d1) /\ ~typeError /\ IsNotOk(d1)
        auth == notok /\ IsInvalidApiKey(d1)
        retry2 == IF notok THEN TRUE ELSE retry1
        d2 == IF notok THEN PyNone ELSE d1
        \* if data and (message OK) and result: data = result
        d3 == IF Truthy(d2) /\ ~typeError /\ IsSuccess(d2) THEN Get(d2, "result") ELSE d2
    IN  [count |-> c1,
         data |-> IF typeError THEN d1 ELSE d3,
         retry |-> retry2 /\ ~typeError,
         raised |-> typeError,
         requested |-> requested,
         caught |-> caught,
         slept |-> (IF caught THEN 1 ELSE 0) + (IF notok THEN 1 ELSE 0),
         auth |-> auth]

\* One pass of the while loop, entered with count c and data d under budget n,
\* when the attempt (if one is made) is answered by resp.
LoadRetryPass(c, d, n, resp) ==
    LET c1 == c + 1
        requested == ~BudgetSpent(c1, n)
        caught == requested /\ resp.kind \in TransportErrors
        \* the try block
        d1 == IF requested /\ ~caught THEN resp.doc ELSE d
        retry1 == caught
        \* if data: if 'NOTOK' in data.get('message')
        typeError == Truthy(d1) /\ (d1.t # "dict" \/ Get(d1, "message").t # "str")
        notok == Truthy(d1) /\ ~typeError /\ IsNotOk(d1)
        auth == notok /\ IsInvalidApiKey(d1)
        retry2 == IF notok THEN ~auth ELSE retry1
        d2 == IF notok THEN PyNone ELSE d1
        \* if data and (message OK) and result: data = result
        d3 == IF Truthy(d2) /\ ~typeError /\ IsSuccess(d2) THEN Get(d2, "result") ELSE d2
    IN  [count |-> c1,
         data |-> IF typeError THEN d1 ELSE d3,
         retry |-> retry2 /\ ~typeError,
         raised |-> typeError,
         requested |-> requested,
         caught |-> caught,
         slept |-> (IF caught THEN 1 ELSE 0) + (IF notok THEN 1 ELSE 0),
         auth |-> auth]

\* the call of __load_retry(request_data): the locals before the loop
BeginCall(self, c, n) ==
    /\ pc' = [pc EXCEPT ![self] = "load"]
    /\ call' = [call EXCEPT ![self] = c]
    /\ retries' = [retries EXCEPT ![self] = n]
    /\ count' = [count EXCEPT ![self] = 0]
    /\ data' = [data EXCEPT ![self] = PyNone]
    /\ attempts' = [attempts EXCEPT ![self] = 0]
    /\ sleeps' = [sleeps EXCEPT ![self] = 0]
    /\ onlyTransport' = [onlyTransport EXCEPT ![self] = TRUE]

\* no call in progress
EndCalls(self, where) ==
    /\ pc' = [pc EXCEPT ![self] = where]
    /\ call' = [call EXCEPT ![self] = NoCall]
    /\ retries' = [retries EXCEPT ![self] = 0]
    /\ count' = [count EXCEPT ![self] = 0]
    /\ data' = [data EXCEPT ![self] = PyNone]
    /\ attempts' = [attempts EXCEPT ![self] = 0]
    /\ sleeps' = [sleeps EXCEPT ![self] = 0]
    /\ onlyTransport' = [onlyTransport EXCEPT ![self] = TRUE]

\* __load_retry: one pass of the loop; the loop ends when retry is False
LoadRetry(self) ==
    /\ pc[self] = "load"
    /\ \E resp \in Answers(api, call[self].kind) :
         LET r == LoadRetryPass(count[self], data[self], retries[self], resp)
         IN  /\ count' = [count EXCEPT ![self] = r.count]
             /\ data' = [data EXCEPT ![self] = r.data]
             /\ attempts' = [attempts EXCEPT ![self] = @ + (IF r.requested THEN 1 ELSE 0)]
             /\ sleeps' = [sleeps EXCEPT ![self] = @ + r.slept]
             /\ onlyTransport' = [onlyTransport EXCEPT ![self] = @ /\ (r.requested => r.caught)]
             /\ reports' = [reports EXCEPT ![self] = @ + (IF r.auth THEN 1 ELSE 0)]
             /\ settings' = [settings EXCEPT ![self].enable_authentication =
                                AuthenticationAfter(@, r.auth)]
             /\ pc' = [pc EXCEPT ![self] =
                          IF r.raised THEN "raised" ELSE IF r.retry THEN "load" ELSE "loaded"]
    /\ UNCHANGED <<live, api, accounts, call, retries, cycles, entryReports, trace>>

\* ------------------------------------------------------------ the balance table

\* self._accounts.get(symbol): truthy when the symbol has a non-empty dict
HasBalances(table, symbol) == DictHas(table, symbol) /\ DictAt(table, symbol) # <<>>

EnsureSymbol_Reset(table, symbol) == DictSet(table, symbol, <<>>)

\* if not self._accounts.get(symbol): self._accounts.update({symbol: {}})
EnsureSymbol(table, symbol) ==
    IF HasBalances(table, symbol) THEN table ELSE DictSet(table, symbol, <<>>)

SetBalance_Accumulate(table, symbol, account, value) ==
    LET RECURSIVE Times10(_, _)
        Times10(m, k) == IF k <= 0 THEN m ELSE Times10(m * 10, k - 1)
        Sum(a, b) ==
            LET e == IF a.e < b.e THEN a.e ELSE b.e
            IN  Canon(Times10(a.m, a.e - e) + Times10(b.m, b.e - e), e)
        held == DictAt(table, symbol)
    IN  DictSet(table, symbol,
                DictSet(held, account,
                        IF DictHas(held, account)
                        THEN Sum(DictAt(held, account), value) ELSE value))

\* self._accounts[symbol].update({account: value})
SetBalance(table, symbol, account, value) ==
    DictSet(table, symbol, DictSet(DictAt(table, symbol), account, value))

NativeBalance_Unscaled(entry) == ParseNumber(entry.balance)

\* float(account['balance'])/(1000000000000000000)
NativeBalance(entry) == Scale(ParseNumber(entry.balance), NativeDecimals)

\* for account in data: self._accounts['ETH'].update({...})
WriteNative_Replace(table, entries) ==
    DictSet(table, "ETH", [i \in 1..Len(entries) |->
                              [k |-> entries[i].account, v |-> NativeBalance(entries[i])]])

RECURSIVE WriteNative(_, _)
WriteNative(table, entries) ==
    IF entries = <<>> THEN table
    ELSE WriteNative(SetBalance(table, "ETH", Head(entries).account,
                                NativeBalance(Head(entries))),
                     Tail(entries))

\* the accounts retrieve_tokens iterates: the keys of self._accounts['ETH']
NativeAccounts(table) == DictKeys(DictAt(table, "ETH"))

\* ---------------------------------------------- _get_token_balance_on_account

\* decimals = 18; if token.get('decimals', -1) >= 0: decimals = int(token['decimals'])
TokenDecimals_PositiveOnly(token) ==
    IF "decimals" \in DOMAIN token /\ token.decimals > 0
    THEN token.decimals ELSE DefaultDecimals

TokenDecimals(token) ==
    IF "decimals" \in DOMAIN token /\ token.decimals >= 0
    THEN token.decimals ELSE DefaultDecimals

\* int(data) raises: data is no str (TypeError) or no decimal literal (ValueError)
IntRaises(d) == Truthy(d) /\ (d.t # "str" \/ ~IsNumeric(d.s))

TokenBalance_Sentinel(d, token) ==
    IF Truthy(d) /\ ParseNumber(d.s).m > 0
    THEN IF TokenDecimals(token) > 0
         THEN Scale(ParseNumber(d.s), TokenDecimals(token))
         ELSE ParseNumber(d.s)
    ELSE [m |-> 0 - 1, e |-> 0]

\* the balance returned for the data __load_retry returned
TokenBalance(d, token) ==
    IF Truthy(d) /\ ParseNumber(d.s).m > 0
    THEN IF TokenDecimals(token) > 0
         THEN Scale(ParseNumber(d.s), TokenDecimals(token))
         ELSE ParseNumber(d.s)
    ELSE Zero

\* ------------------------------------------------------------ retrieve_accounts

\* the call in progress returned: its request, and whether it returned a payload
Completed(self, symbol, account) ==
    Append(trace[self], [kind |-> call[self].kind, symbol |-> symbol, account |-> account,
                         ok |-> Truthy(data[self])])

\* retrieve_tokens, up to the __load_retry call for the pair (ai, ti):
\* the token's symbol gets its dict, then the request is prepared
BeginPair(self, table, ai, ti) ==
    /\ accounts' = EnsureSymbol(table, settings[self].tokens[ti].short)
    /\ BeginCall(self, [kind |-> "token", ai |-> ai, ti |-> ti], DefaultRetries)

RetrieveAccounts_NoLockout(self) ==
    /\ self \in live
    /\ pc[self] = "idle"
    /\ cycles[self] < MaxCycles
    /\ cycles' = [cycles EXCEPT ![self] = @ + 1]
    /\ entryReports' = [entryReports EXCEPT ![self] = reports[self]]
    /\ trace' = [trace EXCEPT ![self] = <<>>]
    /\ BeginCall(self, [kind |-> "native", ai |-> 0, ti |-> 0], DefaultRetries)
    /\ UNCHANGED <<live, api, settings, accounts, reports>>

\* retrieve_accounts() is called
RetrieveAccounts(self) ==
    /\ self \in live
    /\ pc[self] = "idle"
    /\ cycles[self] < MaxCycles
    /\ cycles' = [cycles EXCEPT ![self] = @ + 1]
    /\ entryReports' = [entryReports EXCEPT ![self] = reports[self]]
    /\ trace' = [trace EXCEPT ![self] = <<>>]
    /\ IF settings[self].enable_authentication
       THEN BeginCall(self, [kind |-> "native", ai |-> 0, ti |-> 0], DefaultRetries)
       ELSE EndCalls(self, "done")
    /\ UNCHANGED <<live, api, settings, accounts, reports>>

\* retrieve_accounts() after the balancemulti call returned: the native balances
\* are written, then retrieve_tokens() runs up to its first request
NativeLoaded(self) ==
    /\ pc[self] = "loaded"
    /\ call[self].kind = "native"
    /\ LET d == data[self]
           typeError == Truthy(d) /\ d.t # "list"
           t1 == IF Truthy(d) THEN EnsureSymbol(accounts, "ETH") ELSE accounts
           t2 == IF Truthy(d) /\ ~typeError THEN WriteNative(t1, d.l) ELSE t1
           t3 == EnsureSymbol(t2, "ETH")
       IN  IF typeError
           THEN /\ accounts' = t1
                /\ pc' = [pc EXCEPT ![self] = "raised"]
                /\ UNCHANGED <<call, retries, count, data, attempts, sleeps, onlyTransport, trace>>
           ELSE /\ trace' = [trace EXCEPT ![self] = Completed(self, "ETH", "")]
                /\ IF settings[self].tokens = <<>>
                   THEN accounts' = t2 /\ EndCalls(self, "done")
                   ELSE IF NativeAccounts(t3) = <<>>
                        THEN accounts' = t3 /\ EndCalls(self, "done")
                        ELSE BeginPair(self, t3, 1, 1)
    /\ UNCHANGED <<live, api, settings, reports, cycles, entryReports>>

NextPair_SkipsLastAccount(ai, ti, na, nt) ==
    IF ti < nt THEN [ai |-> ai, ti |-> ti + 1]
    ELSE IF ai < na - 1 THEN [ai |-> ai + 1, ti |-> 1]
    ELSE [ai |-> 0, ti |-> 0]

\* for account in self._accounts['ETH']: for token in self.settings['tokens']:
\* the pair after (ai, ti) among na accounts and nt tokens; (0, 0) when the loops end
NextPair(ai, ti, na, nt) ==
    IF ti < nt THEN [ai |-> ai, ti |-> ti + 1]
    ELSE IF ai < na THEN [ai |-> ai + 1, ti |-> 1]
    ELSE [ai |-> 0, ti |-> 0]

\* retrieve_tokens() after a tokenbalance call returned: the balance is written,
\* then the loops go on to the next pair's request, or end
TokenLoaded(self) ==
    /\ pc[self] = "loaded"
    /\ call[self].kind = "token"
    /\ LET ai == call[self].ai
           ti == call[self].ti
           tokens == settings[self].tokens
           token == tokens[ti]
           account == NativeAccounts(accounts)[ai]
           t1 == SetBalance(accounts, token.short, account, TokenBalance(data[self], token))
           next == NextPair(ai, ti, Len(NativeAccounts(t1)), Len(tokens))
       IN  IF IntRaises(data[self])
           THEN /\ pc' = [pc EXCEPT ![self] = "raised"]
                /\ UNCHANGED <<accounts, call, retries, count, data, attempts, sleeps,
                               onlyTransport, trace>>
           ELSE /\ trace' = [trace EXCEPT ![self] = Completed(self, token.short, account)]
                /\ IF next.ai > 0 THEN BeginPair(self, t1, next.ai, next.ti)
                   ELSE accounts' = t1 /\ EndCalls(self, "done")
    /\ UNCHANGED <<live, api, settings, reports, cycles, entryReports>>

\* return self._accounts
Return(self) ==
    /\ pc[self] = "done"
    /\ pc' = [pc EXCEPT ![self] = "idle"]
    /\ entryReports' = [entryReports EXCEPT ![self] = 0]
    /\ trace' = [trace EXCEPT ![self] = <<>>]
    /\ UNCHANGED <<live, api, settings, accounts, call, retries, count, data, attempts, sleeps,
                   onlyTransport, reports, cycles>>

\* __load_retry(request_data, retries=n) called on its own
CallLoadRetry(self, kind, n) ==
    /\ self \in live
    /\ pc[self] = "idle"
    /\ cycles[self] < MaxCycles
    /\ cycles' = [cycles EXCEPT ![self] = @ + 1]
    /\ BeginCall(self, [kind |-> kind, ai |-> 0, ti |-> 0], n)
    /\ UNCHANGED <<live, api, settings, accounts, reports, entryReports, trace>>

\* the caller of a __load_retry called on its own has its result
CallReturned(self) ==
    /\ pc[self] = "loaded"
    /\ EndCalls(self, "idle")
    /\ UNCHANGED <<live, api, settings, accounts, reports, cycles, entryReports, trace>>

Next ==
    \E self \in Instances :
        \/ RetrieveAccounts(self)
        \/ LoadRetry(self)
        \/ NativeLoaded(self)
        \/ TokenLoaded(self)
        \/ Return(self)

Spec == Init /\ [][Next]_vars

\* poll cycles against an API that gives the same successful answer every time
InitScripted ==
    /\ InitOf({"c1"})
    /\ api \in {ScriptedApi(p, r) : p \in NativePayloadsOver(SignedNativeRaws),
                                    r \in SignedTokenRaws}

SpecScripted == InitScripted /\ [][Next]_vars

\* one token under every decimals setting, absent included, and raw balances
\* of every length up to a whole unit of an 18-decimals token
NormDecimals == (0 - 1)..DefaultDecimals

NormConfigs ==
    {<<[contract |-> "0xT", short |-> "TKN", decimals |-> d]>> : d \in NormDecimals}
    \cup {<<DAI>>}

NormRaws ==
    {<<"0">>, <<"7">>, <<"1", "2", "3">>, <<"5">> \o Zeros(6),
     <<"1", "2">> \o Zeros(DefaultDecimals)}

InitNorm ==
    /\ InitWith({"c1"}, NormConfigs)
    /\ api \in {ScriptedApi(PyList(<<[account |-> Addresses[1], balance |-> <<"0">>],
                                      [account |-> Addresses[2], balance |-> <<"0">>]>>), r) :
                    r \in NormRaws}

SpecNorm == InitNorm /\ [][Next]_vars

\* two connectors of one process polling in any interleaving
InitTwo ==
    /\ InitWith(Instances, {<<USDC>>})
    /\ api \in {ScriptedApi(p, r) : p \in NativePayloads, r \in TokenRaws}

SpecTwo == InitTwo /\ [][Next]_vars

\* the API client alone, under every budget up to MaxBudget
NextCall ==
    \E self \in Instances :
        \/ \E kind \in {"native", "token"}, n \in 0..MaxBudget : CallLoadRetry(self, kind, n)
        \/ LoadRetry(self)
        \/ CallReturned(self)

SpecCall == Init /\ [][NextCall]_vars

\* the while loop of a call in progress keeps running
SpecCallFair == SpecCall /\ \A self \in Instances : WF_vars(LoadRetry(self))

\* ------------------------------------------------------------------ properties

\* the step makes a network request (requests.get) on behalf of self
Requests(self) == attempts'[self] = attempts[self] + 1

\* the entry of (symbol, account): <<value>>, or <<>> when there is none
PairEntry(table, symbol, account) ==
    IF DictHas(table, symbol) /\ DictHas(DictAt(table, symbol), account)
    THEN <<DictAt(DictAt(table, symbol), account)>>
    ELSE <<>>

\* the entries under the native symbol
NativeEntries(table) == IF DictHas(table, "ETH") THEN DictAt(table, "ETH") ELSE <<>>

\* the step is self's, after a tokenbalance call that returned no payload
FailedPairStep(self) ==
    /\ pc[self] = "loaded"
    /\ call[self].kind = "token"
    /\ ~Truthy(data[self])
    /\ pc'[self] # "loaded"

CallAccount(self) == NativeAccounts(accounts)[call[self].ai]
CallToken(self) == settings[self].tokens[call[self].ti]

\* C1: once an "Invalid API Key" response has been observed, a later
\* retrieve_accounts() call goes straight to its return, makes no network
\* request and leaves the table as it was.
AuthenticationLockout ==
    [][\A self \in Instances :
         /\ (pc[self] = "idle" /\ reports[self] > 0 /\ pc'[self] # "idle")
                => (pc'[self] = "done" /\ accounts' = accounts /\ ~Requests(self))
         /\ (pc[self] = "done" /\ entryReports[self] > 0 /\ pc'[self] # "done")
                => (pc'[self] = "idle" /\ accounts' = accounts /\ ~Requests(self))]_vars

LockedOutCallReturned ==
    \E self \in Instances :
        pc[self] = "done" /\ entryReports[self] > 0 /\ trace[self] = <<>>
        /\ NativeEntries(accounts) # <<>>

\* C2: enable_authentication starts True, changes only from True to False, and
\* only in a step that reports an authentication failure; once False it stays False.
AuthenticationLatch ==
    /\ \A self \in Instances : settings[self].enable_authentication
    /\ [][\A self \in Instances :
            /\ ~settings[self].enable_authentication => ~settings'[self].enable_authentication
            /\ settings'[self].enable_authentication # settings[self].enable_authentication
                   => reports'[self] = reports[self] + 1]_vars

DisabledAcrossCycles ==
    \E self \in Instances :
        /\ ~settings[self].enable_authentication
        /\ pc[self] = "done"
        /\ entryReports[self] > 0
        /\ cycles[self] >= 2

\* C3: after an authentication failure has been observed, no step makes a
\* network request for the instance, in the same poll cycle or a later one.
NoRequestAfterAuthenticationFailure ==
    [][\A self \in Instances : reports[self] > 0 => ~Requests(self)]_vars

\* C4: the authentication error handler is invoked at most once per instance.
ReportedAtMostOnce == \A self \in Instances : reports[self] <= 1

\* C5: a call whose every attempt raised a transport failure has slept once after
\* each attempt, and returns only when it has made exactly `retries` attempts,
\* with no data.
RetryExhaustion ==
    \A self \in Instances :
        (pc[self] \in {"load", "loaded"} /\ onlyTransport[self]) =>
            /\ attempts[self] <= retries[self]
            /\ sleeps[self] = attempts[self]
            /\ pc[self] = "loaded" =>
                   (attempts[self] = retries[self] /\ data[self].t = "None")

ExhaustedAfterFiveAttempts ==
    \E self \in Instances :
        /\ pc[self] = "loaded"
        /\ onlyTransport[self]
        /\ retries[self] = DefaultRetries
        /\ attempts[self] = DefaultRetries
        /\ sleeps[self] = DefaultRetries

\* C6: a document that is neither an application failure nor a success is never
\* returned to the caller as the result of the call: the call goes on to the
\* next attempt.
NeverReturnsDocument ==
    \A self \in Instances : pc[self] = "loaded" => data[self].t # "dict"

\* C7: no exception escapes the API client or retrieve_accounts().
NoExceptionEscapes == \A self \in Instances : pc[self] # "raised"

\* C8: a tokenbalance call that returned no payload leaves the value the table
\* held for its (token, account) pair as it was.
StaleValuePreserved ==
    [][\A self \in Instances :
         (FailedPairStep(self)
              /\ PairEntry(accounts, CallToken(self).short, CallAccount(self)) # <<>>)
         => PairEntry(accounts', CallToken(self).short, CallAccount(self))
                = PairEntry(accounts, CallToken(self).short, CallAccount(self))]_vars

NativeFailed(self) ==
    \/ pc[self] = "loaded" /\ call[self].kind = "native" /\ data[self].t # "list"
    \/ pc[self] # "idle" /\ trace[self] # <<>> /\ ~trace[self][1].ok

\* C10: in a cycle whose balancemulti call returned no payload, no step changes
\* the entries under "ETH": none is removed, reset or overwritten.
NativeUntouchedOnFailure ==
    [][\A self \in Instances :
         NativeFailed(self) => NativeEntries(accounts') = NativeEntries(accounts)]_vars

StaleNativeKept ==
    \E self \in Instances :
        /\ pc[self] = "done"
        /\ trace[self] # <<>>
        /\ ~trace[self][1].ok
        /\ Len(trace[self]) > 1
        /\ NativeEntries(accounts) # <<>>

\* the decimal literal of the integer m * 10^z
RECURSIVE DigitsOf(_)
DigitsOf(m) ==
    IF m < 10 THEN <<DigitChars[m + 1]>>
    ELSE DigitsOf(m \div 10) \o <<DigitChars[(m % 10) + 1]>>

Decimal(m, z) ==
    IF m = 0 THEN <<"0">>
    ELSE IF m < 0 THEN <<"-">> \o DigitsOf(0 - m) \o Zeros(z)
    ELSE DigitsOf(m) \o Zeros(z)

\* v = raw / 10^decimals, said without division: v * 10^decimals is the integer raw
IsQuotient(v, raw, decimals) == v.e + decimals >= 0 /\ Decimal(v.m, v.e + decimals) = raw

\* the step is self's, after a balancemulti call that returned a list
NativeSuccessStep(self) ==
    /\ pc[self] = "loaded"
    /\ call[self].kind = "native"
    /\ data[self].t = "list"
    /\ pc'[self] # "loaded"

\* C11: after a balancemulti call that returned a list, every account of the list
\* has the entry balance / 10^18 under "ETH", the other native entries are as they
\* were, and no other step changes the native entries.
NativeBalancesWritten ==
    [][\A self \in live :
         /\ NativeSuccessStep(self) =>
                /\ \A i \in 1..Len(data[self].l) :
                       LET after == PairEntry(accounts', "ETH", data[self].l[i].account)
                       IN  /\ after # <<>>
                           /\ IsQuotient(after[1], data[self].l[i].balance, NativeDecimals)
                /\ \A i \in 1..Len(NativeEntries(accounts)) :
                       LET k == NativeEntries(accounts)[i].k
                       IN  (\A j \in 1..Len(data[self].l) : data[self].l[j].account # k)
                               => PairEntry(accounts', "ETH", k) = PairEntry(accounts, "ETH", k)
         /\ ~NativeSuccessStep(self) => NativeEntries(accounts') = NativeEntries(accounts)]_vars

NativeRefreshed ==
    \E self \in live :
        /\ cycles[self] = 2
        /\ pc[self] = "done"
        /\ trace[self] # <<>>
        /\ trace[self][1].ok
        /\ PairEntry(accounts, "ETH", Addresses[1]) = <<[m |-> 2, e |-> 0]>>
        /\ PairEntry(accounts, "ETH", Addresses[2]) = <<Zero>>

\* C12: against an API that gives the same successful answer to every request,
\* the second call of retrieve_accounts(), and any later one, leaves the table
\* exactly as the first call left it.
Idempotence ==
    [][\A self \in live : cycles[self] >= 2 => accounts' = accounts]_vars

SecondCycleCompleted ==
    \E self \in live :
        /\ api.scripted
        /\ cycles[self] = 2
        /\ pc[self] = "done"
        /\ Len(trace[self]) = 1 + Len(NativeEntries(accounts)) * Len(settings[self].tokens)
        /\ Len(trace[self]) > 2
        /\ \A n \in 1..Len(trace[self]) : trace[self][n].ok

\* C13: a token balance is stored as raw / 10^decimals for every decimals in
\* 0..18 and every raw integer >= 0, unscaled when decimals is 0, and as for
\* decimals = 18 when decimals is negative or absent.
UnitNormalization ==
    \A self \in live : \A t \in 1..Len(settings[self].tokens) :
        \A a \in 1..Len(Addresses) :
            LET token == settings[self].tokens[t]
                stored == PairEntry(accounts, token.short, Addresses[a])
                decimals == IF "decimals" \in DOMAIN token /\ token.decimals \in 0..18
                            THEN token.decimals ELSE 18
            IN  (api.scripted /\ stored # <<>>) =>
                    /\ IsQuotient(stored[1], api.token, decimals)
                    /\ decimals = 0 => stored[1] = ParseNumber(api.token)

NormalizedWithDefault ==
    \E self \in live :
        /\ pc[self] = "done"
        /\ settings[self].tokens # <<>>
        /\ "decimals" \in DOMAIN settings[self].tokens[1]
        /\ settings[self].tokens[1].decimals < 0
        /\ api.scripted
        /\ api.token = <<"1", "2">> \o Zeros(18)
        /\ PairEntry(accounts, "TKN", Addresses[2]) = <<[m |-> 12, e |-> 0]>>

\* C14: every value stored in the balance table is non-negative, whatever the
\* API answers, a negative raw balance included.
NonNegativeBalances ==
    \A i \in 1..Len(accounts) : \A j \in 1..Len(accounts[i].v) :
        accounts[i].v[j].v.m >= 0

\* Connector.get_accounts of an instance: the class attribute _accounts
GetAccounts(self) == accounts

\* the step is one of this instance's
Acts(self) ==
    <<pc[self], count[self], attempts[self], cycles[self]>>'
        # <<pc[self], count[self], attempts[self], cycles[self]>>

\* C15: with two connector instances in one process, a step of one instance
\* never changes the table get_accounts() returns for the other, nor the other's
\* enable_authentication flag.
InstanceIsolation ==
    [][\A self \in live :
          ~Acts(self) =>
              /\ GetAccounts(self)' = GetAccounts(self)
              /\ settings'[self] = settings[self]]_vars

\* the cycle of self has ended, by return or by an exception
CycleEnded(self) == pc[self] \in {"done", "raised"}

\* the cycle of self passed the enable_authentication test
CycleEnabled(self) == pc[self] # "idle" /\ (call[self].kind # "none" \/ trace[self] # <<>>)

\* the (token, account) pairs of self, accounts as known under the native symbol
Pairs(self) ==
    {<<settings[self].tokens[t].short, NativeEntries(accounts)[a].k>> :
        t \in 1..Len(settings[self].tokens), a \in 1..Len(NativeEntries(accounts))}

\* the pairs whose tokenbalance call has returned in this cycle
PairsCalled(self) ==
    {<<trace[self][n].symbol, trace[self][n].account>> : n \in 2..Len(trace[self])}

\* C16: in a poll cycle with authentication enabled the balancemulti call comes
\* first and returns before any tokenbalance call starts, the tokenbalance calls
\* that follow are one per (token, account) pair with no pair called twice, and
\* the cycle ends with every pair called.
CallOrdering ==
    \A self \in live :
        CycleEnabled(self) =>
            /\ call[self].kind = "native" => trace[self] = <<>>
            /\ call[self].kind = "token" =>
                   /\ trace[self] # <<>>
                   /\ <<CallToken(self).short, CallAccount(self)>>
                          \in Pairs(self) \ PairsCalled(self)
            /\ \A n \in 1..Len(trace[self]) :
                   trace[self][n].kind = (IF n = 1 THEN "native" ELSE "token")
            /\ PairsCalled(self) \subseteq Pairs(self)
            /\ trace[self] # <<>> => Cardinality(PairsCalled(self)) = Len(trace[self]) - 1
            /\ CycleEnded(self) =>
                   /\ trace[self] # <<>>
                   /\ PairsCalled(self) = Pairs(self)

\* the document has a message that names no failure and names success, and a
\* non-empty result
NamesSuccess(doc) ==
    LET message == Get(doc, "message")
    IN  /\ message.t = "str"
        /\ ~Contains(S_NOTOK, message.s)
        /\ message.s = S_OK \/ Contains(S_OKDASH, message.s)
        /\ Truthy(Get(doc, "result"))

\* the pass of the loop ends the call with the document's result as its payload
YieldsSuccess(r, doc) ==
    ~r.retry /\ ~r.raised /\ Truthy(r.data) /\ r.data = Get(doc, "result")

\* C17: the document of an attempt ends the call with its result as the payload
\* if and only if its message does not contain "NOTOK", equals "OK" or contains
\* "OK-", and its result is non-empty; a message containing "NOTOK" never does,
\* even one that contains "OK-" with a non-empty result.
ResponseClassification ==
    \A self \in live :
        (pc[self] = "load" /\ ~BudgetSpent(count[self] + 1, retries[self])) =>
            \A resp \in Responses(call[self].kind) :
                resp.kind = "json" =>
                    LET r == LoadRetryPass(count[self], data[self], retries[self], resp)
                        message == Get(resp.doc, "message")
                    IN  /\ YieldsSuccess(r, resp.doc) <=> NamesSuccess(resp.doc)
                        /\ (message.t = "str" /\ Contains(S_NOTOK, message.s)) =>
                               (r.data.t = "None" /\ ~r.raised /\ r.slept = 1)

SucceededAfterFailure ==
    \E self \in live :
        /\ pc[self] = "loaded"
        /\ call[self].kind = "token"
        /\ attempts[self] = 2
        /\ sleeps[self] = 1
        /\ ~onlyTransport[self]
        /\ data[self] = PyStr(<<"5">> \o Zeros(6))

\* the pass of the loop met a transport failure or a transient "NOTOK" document
FailedAttemptStep(self) == pc[self] = "load" /\ sleeps'[self] = sleeps[self] + 1

\* C18: a call of the API client with budget n ends, having made at most n
\* network attempts; every transport failure and every transient "NOTOK"
\* response takes exactly one attempt of the budget.
CallTerminates ==
    /\ \A self \in Instances : pc[self] = "load" ~> pc[self] # "load"
    /\ [](\A self \in live : pc[self] \in {"load", "loaded"} => attempts[self] <= retries[self])
    /\ [][\A self \in live :
            FailedAttemptStep(self) =>
                /\ attempts'[self] = attempts[self] + 1
                /\ count'[self] = count[self] + 1
                /\ count'[self] = attempts'[self]]_vars

BudgetSpentOnTransientFailures ==
    \E self \in live :
        /\ pc[self] = "loaded"
        /\ retries[self] = MaxBudget
        /\ attempts[self] = MaxBudget
        /\ sleeps[self] = MaxBudget
        /\ ~onlyTransport[self]
        /\ data[self].t = "None"
        /\ reports[self] = 0

\* the pass of the loop received "NOTOK" with result "Invalid API Key"
AuthenticationFailureStep(self) == reports'[self] = reports[self] + 1

\* C19: the attempt that receives a "NOTOK" document with result "Invalid API
\* Key" is the last of its call, whatever budget remains: the call returns no
\* payload, and enable_authentication is False when it returns.
AuthenticationFailureEndsCall ==
    [][\A self \in live :
          /\ AuthenticationFailureStep(self) =>
                /\ pc'[self] = "loaded"
                /\ data'[self].t = "None"
                /\ ~settings'[self].enable_authentication
          /\ pc[self] = "loaded" => ~Requests(self)]_vars

FailedWithBudgetLeft ==
    \E self \in live :
        /\ pc[self] = "loaded"
        /\ reports[self] = 1
        /\ attempts[self] = 1
        /\ retries[self] = MaxBudget
        /\ data[self].t = "None"
        /\ ~settings[self].enable_authentication

\* the (symbol, account) keys of the table
Keys(table) ==
    UNION {{<<table[i].k, table[i].v[j].k>> : j \in 1..Len(table[i].v)} :
               i \in 1..Len(table)}

\* C20: on one instance no (symbol, account) key of the balance table is ever
\* removed, and the accounts under every token symbol are accounts under "ETH".
TableShape ==
    /\ [][Keys(accounts) \subseteq Keys(accounts')]_vars
    /\ [](\A i \in 1..Len(accounts) : \A j \in 1..Len(accounts[i].v) :
            <<"ETH", accounts[i].v[j].k>> \in Keys(accounts))

KeysKeptThroughFailure ==
    \E self \in live :
        /\ cycles[self] = 2
        /\ pc[self] = "done"
        /\ Len(trace[self]) = 3
        /\ trace[self][1].ok
        /\ ~trace[self][3].ok
        /\ Keys(accounts) = {"ETH", "USDC"} \X {Addresses[1], Addresses[2]}
====
